---- MODULE Spec2Model ----
(***************************************************************************)
(* Model of the allocation / rebalancing engine of                        *)
(* src/utils/calculations.py (class PortfolioCalculator).                  *)
(*                                                                         *)
(* Python floats are modelled as exact rationals (records [n, d] in lowest *)
(* terms, d > 0), dicts as functions, lists as sequences.  The formatted   *)
(* numbers of a suggestion string ("{x:,.2f}", "{x:.1f}") are modelled as  *)
(* the rounded fixed-point value the format prints; a suggestion string is *)
(* the record of its kind, its label and its formatted numbers.            *)
(***************************************************************************)
EXTENDS Integers, Sequences, FiniteSets, TLC

VARIABLES
    positions,              \* input of calculate_current_allocation
    use_custom_labels,      \* input of calculate_current_allocation
    current_allocation,     \* input: {label: current_value}
    target_allocations,     \* input: {label: target_percentage}
    additional_investment,  \* input of create_rebalancing_plan
    old_allocation,         \* input of calculate_historical_growth
    new_allocation,         \* input of calculate_historical_growth
    call,                   \* the engine function that has been called, or "none"
    allocation,             \* result of calculate_current_allocation
    percentages,            \* result of calculate_allocation_percentages
    analyses,               \* result of analyze_allocation
    plan,                   \* result of create_rebalancing_plan
    growth_data,            \* result of calculate_historical_growth
    plan_again,             \* result of a second create_rebalancing_plan, same inputs
    analyses_before,        \* history: the sorted list handed to _generate_suggestions
    frame,                  \* per caller: where its call stands, and what it was called with
    locals,                 \* per frame: the local `allocation` dict and `analyses` list
    result,                 \* per caller: what its calls returned
    targets,                \* dashboard: the target_allocations table, by custom_label
    reserve_positions,      \* dashboard: the positions of the labels with a reserve
    seguranca_info,         \* dashboard: the flag of the reserve category, if any
    default_investment,     \* dashboard: the default of the investment input
    session_state,          \* dashboard: st.session_state
    stored_positions,       \* database: the rows of the positions table
    asset_mappings,         \* database: the asset_mappings table, by asset_name
    asset_name,             \* database: the asset the last call was about
    entries,                \* PGBL: the income entries of a year
    completion_pct,         \* PGBL: argument of get_status_info
    taxable_income,         \* PGBL: result of calculate_taxable_income
    status_info,            \* PGBL: result of get_status_info
    pass_trace              \* history of the greedy loop of _generate_suggestions

vars == << positions, use_custom_labels, current_allocation, target_allocations,
           additional_investment, old_allocation, new_allocation, call, allocation,
           percentages, analyses, plan, growth_data, plan_again, analyses_before,
           frame, locals, result, targets, reserve_positions, seguranca_info,
           default_investment, session_state, stored_positions, asset_mappings,
           asset_name, entries, completion_pct, taxable_income, status_info,
           pass_trace >>

----------------------------------------------------------------------------
(* Exact rational arithmetic standing for Python float arithmetic.         *)

Abs(i) == IF i < 0 THEN -i ELSE i

RECURSIVE GCD(_, _)
GCD(a, b) == IF b = 0 THEN a ELSE GCD(b, a % b)

\* The outcome of a float division by zero: Python raises ZeroDivisionError
\* and the call ends in it.  It is carried as a value with denominator 0
\* that every later operation hands on, so a result that holds it stands for
\* a call that ended in the error.
ZeroDivisionError == [n |-> 0, d |-> 0]

\* n/d in lowest terms with a positive denominator; the error for d = 0.
Rat(n, d) ==
    IF d = 0 THEN ZeroDivisionError
    ELSE LET g == GCD(Abs(n), Abs(d))
             s == IF d < 0 THEN -1 ELSE 1
         IN  [n |-> (s * n) \div g, d |-> (s * d) \div g]

RInt(i) == [n |-> i, d |-> 1]
RZero == RInt(0)
RAdd(a, b) == Rat(a.n * b.d + b.n * a.d, a.d * b.d)
RSub(a, b) == Rat(a.n * b.d - b.n * a.d, a.d * b.d)
RMul(a, b) == Rat(a.n * b.n, a.d * b.d)
RDiv(a, b) == Rat(a.n * b.d, a.d * b.n)
RLt(a, b) == a.n * b.d < b.n * a.d
RLe(a, b) == a.n * b.d <= b.n * a.d
RAbs(a) == [n |-> Abs(a.n), d |-> a.d]
RMin(a, b) == IF RLt(b, a) THEN b ELSE a
RMax(a, b) == IF RLt(a, b) THEN b ELSE a

\* sum(...) over a sequence of rationals
RECURSIVE RSumSeq(_)
RSumSeq(s) == IF s = << >> THEN RZero ELSE RAdd(s[1], RSumSeq(Tail(s)))

\* sum(d.values()) of a dict d
RECURSIVE RSumMap(_)
RSumMap(f) ==
    IF DOMAIN f = {} THEN RZero
    ELSE LET k == CHOOSE x \in DOMAIN f : TRUE
         IN  RAdd(f[k], RSumMap([x \in DOMAIN f \ {k} |-> f[x]]))

\* dict.get(key, 0.0)
Get(f, k) == IF k \in DOMAIN f THEN f[k] ELSE RZero

----------------------------------------------------------------------------
(* Formatting of a float in a suggestion string.                           *)

\* The value a fixed-point format prints for r with `scale` = 10^places:
\* the sign, and |r| rounded to the nearest 1/scale, a tie going to the even
\* digit (the format rounds the exact value half-even).
FormatFixed(r, scale) ==
    LET num == Abs(r.n) * scale
        q   == num \div r.d
        rem == num % r.d
        up  == (2 * rem > r.d) \/ (2 * rem = r.d /\ q % 2 = 1)
    IN  [neg |-> r.n < 0, units |-> IF up THEN q + 1 ELSE q]

\* f"{x:,.2f}"
Fmt2(r) == FormatFixed(r, 100)
\* f"{x:.1f}"
Fmt1(r) == FormatFixed(r, 10)

----------------------------------------------------------------------------
(* calculate_current_allocation, calculate_allocation_percentages          *)

\* Python None as the value of Position.custom_label
None == "<None>"

\* The key of unclassified positions, "Não Classificado" in the source
\* (written here without the tilde).
UNCLASSIFIED == "Nao Classificado"

EmptyMap == [x \in {} |-> RZero]

\* Variant: `is not None` in place of the truth value.
Truthy_NotNone(label) == label # None

\* `position.custom_label if position.custom_label else ...`: None and the
\* empty string are both falsy.
Truthy(label) == label # None /\ label # ""

GroupKey(position, ucl) ==
    IF ucl
    THEN IF Truthy(position.custom_label) THEN position.custom_label ELSE UNCLASSIFIED
    ELSE position.sub_category

\* Variant: `allocation[key] = position.value` in place of `+=`.
RECURSIVE calculate_current_allocation_Overwrite(_, _)
calculate_current_allocation_Overwrite(ps, ucl) ==
    IF ps = << >> THEN EmptyMap
    ELSE LET front == calculate_current_allocation_Overwrite(SubSeq(ps, 1, Len(ps) - 1), ucl)
             position == ps[Len(ps)]
             key  == GroupKey(position, ucl)
             base == IF key \notin DOMAIN front THEN front @@ (key :> RZero) ELSE front
         IN  [base EXCEPT ![key] = position.value]

RECURSIVE calculate_current_allocation(_, _)
calculate_current_allocation(ps, ucl) ==
    IF ps = << >> THEN EmptyMap
    ELSE LET front == calculate_current_allocation(SubSeq(ps, 1, Len(ps) - 1), ucl)
             position == ps[Len(ps)]
             key  == GroupKey(position, ucl)
             base == IF key \notin DOMAIN front THEN front @@ (key :> RZero) ELSE front
         IN  [base EXCEPT ![key] = RAdd(@, position.value)]

\* Variant: fractions of the total, without the `* 100`.
calculate_allocation_percentages_Fraction(alloc) ==
    LET total == RSumMap(alloc)
    IN  IF total = RZero
        THEN [k \in DOMAIN alloc |-> RZero]
        ELSE [k \in DOMAIN alloc |-> RDiv(alloc[k], total)]

\* Variant: without the `if total == 0` guard.
calculate_allocation_percentages_Unguarded(alloc) ==
    LET total == RSumMap(alloc)
    IN  [k \in DOMAIN alloc |-> RMul(RDiv(alloc[k], total), RInt(100))]

calculate_allocation_percentages(alloc) ==
    LET total == RSumMap(alloc)
    IN  IF total = RZero
        THEN [k \in DOMAIN alloc |-> RZero]
        ELSE [k \in DOMAIN alloc |-> RMul(RDiv(alloc[k], total), RInt(100))]

----------------------------------------------------------------------------
(* list.sort(key=..., reverse=True)                                        *)

\* Python's tuple comparison k1 < k2 on keys of equal length (a bool in a
\* key counts as 0 or 1).
RECURSIVE KeyLess(_, _)
KeyLess(k1, k2) ==
    IF k1 = << >> THEN FALSE
    ELSE IF RLt(k1[1], k2[1]) THEN TRUE
    ELSE IF RLt(k2[1], k1[1]) THEN FALSE
    ELSE KeyLess(Tail(k1), Tail(k2))

\* e into s, which is in descending key order: after every element whose key
\* is not smaller (elements of equal key keep their original order).
RECURSIVE InsertDescending(_, _)
InsertDescending(s, e) ==
    IF s = << >> THEN << e >>
    ELSE IF KeyLess(Head(s).key, e.key) THEN << e >> \o s
    ELSE << Head(s) >> \o InsertDescending(Tail(s), e)

\* keyed: a sequence of [key, item]; the stable sort with reverse=True.
RECURSIVE SortReverse(_)
SortReverse(keyed) ==
    IF keyed = << >> THEN << >>
    ELSE InsertDescending(SortReverse(SubSeq(keyed, 1, Len(keyed) - 1)), keyed[Len(keyed)])

Items(keyed) == [i \in 1..Len(keyed) |-> keyed[i].item]

----------------------------------------------------------------------------
(* analyze_allocation                                                      *)

TOLERANCE == Rat(1, 2)

\* Variant: the labels of current_allocation alone.
AllLabels_CurrentOnly(cur, tgt) == DOMAIN cur

\* set(current_allocation.keys()) | set(target_allocations.keys())
AllLabels(cur, tgt) == DOMAIN cur \cup DOMAIN tgt

\* The orders in which a `for label in all_labels` may visit a set of strings
\* (the iteration order of a Python set of str is not fixed by the program).
RECURSIVE IterationOrders(_)
IterationOrders(S) ==
    IF S = {} THEN { << >> }
    ELSE UNION { { << x >> \o p : p \in IterationOrders(S \ {x}) } : x \in S }

\* Variant: `<` in place of `<=` in the test against TOLERANCE.
Status_Strict(diff_pct) ==
    IF RLt(RAbs(diff_pct), TOLERANCE) THEN "balanced"
    ELSE IF RLt(RZero, diff_pct) THEN "overweight"
    ELSE "underweight"

\* The status of a difference in percentage points.
Status(diff_pct) ==
    IF RLe(RAbs(diff_pct), TOLERANCE) THEN "balanced"
    ELSE IF RLt(RZero, diff_pct) THEN "overweight"
    ELSE "underweight"

\* Variant: rebalance_amount = current_value - target_value.
AnalyzeLabel_Flipped(label, cur, tgt, total_value, current_percentages) ==
    LET current_value == Get(cur, label)
        current_pct == Get(current_percentages, label)
        target_pct == Get(tgt, label)
        diff_pct == RSub(current_pct, target_pct)
        target_value == RMul(RDiv(target_pct, RInt(100)), total_value)
        rebalance_amount == RSub(current_value, target_value)
    IN  [ label |-> label,
          current_value |-> current_value,
          current_percentage |-> current_pct,
          target_percentage |-> target_pct,
          difference_percentage |-> diff_pct,
          rebalance_amount |-> rebalance_amount,
          status |-> Status(diff_pct) ]

\* Variant: rebalance_amount = abs(target_value - current_value).
AnalyzeLabel_Unsigned(label, cur, tgt, total_value, current_percentages) ==
    LET current_value == Get(cur, label)
        current_pct == Get(current_percentages, label)
        target_pct == Get(tgt, label)
        diff_pct == RSub(current_pct, target_pct)
        target_value == RMul(RDiv(target_pct, RInt(100)), total_value)
        rebalance_amount == RAbs(RSub(target_value, current_value))
    IN  [ label |-> label,
          current_value |-> current_value,
          current_percentage |-> current_pct,
          target_percentage |-> target_pct,
          difference_percentage |-> diff_pct,
          rebalance_amount |-> rebalance_amount,
          status |-> Status(diff_pct) ]

\* The body of the loop of analyze_allocation for one label; total_value and
\* current_percentages are computed before the loop.
AnalyzeLabel(label, cur, tgt, total_value, current_percentages) ==
    LET current_value == Get(cur, label)
        current_pct == Get(current_percentages, label)
        target_pct == Get(tgt, label)
        diff_pct == RSub(current_pct, target_pct)
        target_value == RMul(RDiv(target_pct, RInt(100)), total_value)
        rebalance_amount == RSub(target_value, current_value)
    IN  [ label |-> label,
          current_value |-> current_value,
          current_percentage |-> current_pct,
          target_percentage |-> target_pct,
          difference_percentage |-> diff_pct,
          rebalance_amount |-> rebalance_amount,
          status |-> Status(diff_pct) ]

\* Variant: key=lambda x: x.difference_percentage, without the abs.
AnalyzeKey_Signed(a) == << a.difference_percentage >>

\* key=lambda x: abs(x.difference_percentage)
AnalyzeKey(a) == << RAbs(a.difference_percentage) >>

\* order: the order in which the loop visits all_labels.
analyze_allocation(cur, tgt, order) ==
    LET total_value == RSumMap(cur)
        current_percentages == calculate_allocation_percentages(cur)
        appended == [i \in 1..Len(order) |->
                        AnalyzeLabel(order[i], cur, tgt, total_value, current_percentages)]
    IN  Items(SortReverse([i \in 1..Len(order) |->
                              [key |-> AnalyzeKey(appended[i]), item |-> appended[i]]]))

----------------------------------------------------------------------------
(* _generate_suggestions                                                   *)

\* A suggestion string: its kind (which f-string built it), the label it
\* names and the numbers it prints, as formatted.
NoLabel == "-"
NoNumber == FormatFixed(RZero, 1)

Line(kind, label, amount, current, target) ==
    [kind |-> kind, label |-> label, amount |-> amount, current |-> current, target |-> target]

Header(kind) == Line(kind, NoLabel, NoNumber, NoNumber, NoNumber)
Note(kind, amount) == Line(kind, NoLabel, Fmt2(amount), NoNumber, NoNumber)
Advice(kind, a, amount) ==
    Line(kind, a.label, Fmt2(amount), Fmt1(a.current_percentage), Fmt1(a.target_percentage))

\* [a for a in analyses if a.status == 'underweight' and a.rebalance_amount > 0]
Fundable(a) == a.status = "underweight" /\ RLt(RZero, a.rebalance_amount)

\* Variant: without `if remaining <= 0: break`.
RECURSIVE GreedyLoop_NoBreak(_, _)
GreedyLoop_NoBreak(underweight, remaining) ==
    IF underweight = << >> THEN << >>
    ELSE LET analysis == Head(underweight)
             amount == RMin(analysis.rebalance_amount, remaining)
         IN  << [analysis |-> analysis, amount |-> amount,
                 remaining |-> RSub(remaining, amount)] >>
             \o GreedyLoop_NoBreak(Tail(underweight), RSub(remaining, amount))

\* Variant: amount = analysis.rebalance_amount, without the min.
RECURSIVE GreedyLoop_NoMin(_, _)
GreedyLoop_NoMin(underweight, remaining) ==
    IF underweight = << >> THEN << >>
    ELSE IF RLe(remaining, RZero) THEN << >>
    ELSE LET analysis == Head(underweight)
             amount == analysis.rebalance_amount
         IN  << [analysis |-> analysis, amount |-> amount,
                 remaining |-> RSub(remaining, amount)] >>
             \o GreedyLoop_NoMin(Tail(underweight), RSub(remaining, amount))

\* The loop over `underweight` in the new-money branch: one record per
\* iteration that assigns, with the analysis, the amount assigned and the
\* pool left after it.
RECURSIVE GreedyLoop(_, _)
GreedyLoop(underweight, remaining) ==
    IF underweight = << >> THEN << >>
    ELSE IF RLe(remaining, RZero) THEN << >>
    ELSE LET analysis == Head(underweight)
             amount == RMin(analysis.rebalance_amount, remaining)
         IN  << [analysis |-> analysis, amount |-> amount,
                 remaining |-> RSub(remaining, amount)] >>
             \o GreedyLoop(Tail(underweight), RSub(remaining, amount))

\* The steps the greedy loop takes for these analyses (none when the
\* new-money branch or its loop is not entered).
GreedySteps(plan_analyses, investment) ==
    IF RLt(RZero, investment)
    THEN GreedyLoop(SelectSeq(plan_analyses, Fundable), investment)
    ELSE << >>

\* overweight[:3], underweight[:3]
TOP_N == 3
\* Variant: the whole list, without the slice.
FirstN_All(s, n) == s
FirstN(s, n) == SubSeq(s, 1, IF Len(s) < n THEN Len(s) ELSE n)

IsOverweight(a) == a.status = "overweight"
IsUnderweight(a) == a.status = "underweight"

\* The new-money branch (additional_investment > 0).
NewMoneySuggestions(plan_analyses, investment) ==
    LET underweight == SelectSeq(plan_analyses, Fundable)
        steps == GreedyLoop(underweight, investment)
        remaining == IF steps = << >> THEN investment ELSE steps[Len(steps)].remaining
    IN  << Note("available", investment) >>
        \o (IF underweight # << >>
            THEN << Header("allocation_header") >>
                 \o [i \in 1..Len(steps) |->
                        Advice("invest", steps[i].analysis, steps[i].amount)]
                 \o (IF RLt(RZero, remaining)
                     THEN << Note("leftover", remaining) >>
                     ELSE << >>)
            ELSE << >>)

\* The branch without new money.
ReallocationSuggestions(plan_analyses) ==
    LET overweight == SelectSeq(plan_analyses, IsOverweight)
        underweight == SelectSeq(plan_analyses, IsUnderweight)
        reduce == FirstN(overweight, TOP_N)
        increase == FirstN(underweight, TOP_N)
    IN  IF overweight # << >> /\ underweight # << >>
        THEN << Header("rebalance_header") >>
             \o [i \in 1..Len(reduce) |->
                    Advice("reduce", reduce[i], RAbs(reduce[i].rebalance_amount))]
             \o << Header("allocate_header") >>
             \o [i \in 1..Len(increase) |->
                    Advice("increase", increase[i], increase[i].rebalance_amount)]
        ELSE << >>

_generate_suggestions(plan_analyses, investment) ==
    IF RLt(RZero, investment)
    THEN NewMoneySuggestions(plan_analyses, investment)
    ELSE ReallocationSuggestions(plan_analyses)

\* Variant: the filter of the new-money branch done in place on the list.
AnalysesAfterSuggestions_InPlace(plan_analyses, investment) ==
    IF RLt(RZero, investment)
    THEN SelectSeq(plan_analyses, Fundable)
    ELSE plan_analyses

\* The list `analyses` as _generate_suggestions leaves it.  The function
\* builds new lists with comprehensions and slices, keeps the money left in
\* the local `remaining`, and only reads the list and the fields of its
\* items: it assigns to neither.
AnalysesAfterSuggestions(plan_analyses, investment) == plan_analyses

----------------------------------------------------------------------------
(* create_rebalancing_plan                                                 *)

\* Variant: target_value from total_value in place of new_total.
PlanLabel_OldTotal(label, cur, tgt, total_value, new_total) ==
    LET current_value == Get(cur, label)
        target_pct == Get(tgt, label)
        target_value == RMul(RDiv(target_pct, RInt(100)), total_value)
        rebalance_amount == RSub(target_value, current_value)
        new_current_pct ==
            IF RLt(RZero, new_total)
            THEN RMul(RDiv(current_value, new_total), RInt(100))
            ELSE RZero
        diff_pct == RSub(new_current_pct, target_pct)
    IN  [ label |-> label,
          current_value |-> current_value,
          current_percentage |-> new_current_pct,
          target_percentage |-> target_pct,
          difference_percentage |-> diff_pct,
          rebalance_amount |-> rebalance_amount,
          status |-> Status(diff_pct) ]

\* The body of the loop of create_rebalancing_plan for one label; total_value
\* and new_total are computed before the loop.
\* (The local current_pct of line 155 is never read and is left out.)
PlanLabel(label, cur, tgt, total_value, new_total) ==
    LET current_value == Get(cur, label)
        target_pct == Get(tgt, label)
        target_value == RMul(RDiv(target_pct, RInt(100)), new_total)
        rebalance_amount == RSub(target_value, current_value)
        new_current_pct ==
            IF RLt(RZero, new_total)
            THEN RMul(RDiv(current_value, new_total), RInt(100))
            ELSE RZero
        diff_pct == RSub(new_current_pct, target_pct)
    IN  [ label |-> label,
          current_value |-> current_value,
          current_percentage |-> new_current_pct,
          target_percentage |-> target_pct,
          difference_percentage |-> diff_pct,
          rebalance_amount |-> rebalance_amount,
          status |-> Status(diff_pct) ]

\* key=lambda x: (x.status != 'underweight', abs(x.difference_percentage))
\* Variant: key=lambda x: x.status != 'underweight', without the difference.
PlanKey_StatusOnly(a) ==
    << RInt(IF a.status # "underweight" THEN 1 ELSE 0), RZero >>

PlanKey(a) ==
    << RInt(IF a.status # "underweight" THEN 1 ELSE 0), RAbs(a.difference_percentage) >>

\* The sorted analyses of the plan; order: the order in which the loop
\* visits all_labels.
PlanAnalyses(cur, tgt, investment, order) ==
    LET total_value == RSumMap(cur)
        new_total == RAdd(total_value, investment)
        appended == [i \in 1..Len(order) |->
                        PlanLabel(order[i], cur, tgt, total_value, new_total)]
    IN  Items(SortReverse([i \in 1..Len(order) |->
                              [key |-> PlanKey(appended[i]), item |-> appended[i]]]))

\* Variant: the sum over the analyses with status 'underweight' only.
InvestmentNeeded_Underweight(plan_analyses, investment) ==
    IF RLt(RZero, investment) THEN RZero
    ELSE RSumSeq([i \in 1..Len(plan_analyses) |->
                     IF plan_analyses[i].status = "underweight"
                     THEN RMax(RZero, plan_analyses[i].rebalance_amount)
                     ELSE RZero])

\* Variant: sum(a.rebalance_amount for a in analyses), without the max.
InvestmentNeeded_Signed(plan_analyses, investment) ==
    IF RLt(RZero, investment) THEN RZero
    ELSE RSumSeq([i \in 1..Len(plan_analyses) |-> plan_analyses[i].rebalance_amount])

\* 0 if additional_investment > 0 else sum(max(0, a.rebalance_amount) for a in analyses)
InvestmentNeeded(plan_analyses, investment) ==
    IF RLt(RZero, investment) THEN RZero
    ELSE RSumSeq([i \in 1..Len(plan_analyses) |->
                     RMax(RZero, plan_analyses[i].rebalance_amount)])

\* Variant: total_portfolio_value=total_value in place of new_total.
create_rebalancing_plan_OldTotal(cur, tgt, investment, order) ==
    LET sorted == PlanAnalyses(cur, tgt, investment, order)
    IN  [ total_portfolio_value |-> RSumMap(cur),
          analyses |-> sorted,
          additional_investment_needed |-> InvestmentNeeded(sorted, investment),
          suggestions |-> _generate_suggestions(sorted, investment) ]

\* The suggestions are generated before the RebalancingPlan is built, so its
\* fields read the list as that call left it.
create_rebalancing_plan(cur, tgt, investment, order) ==
    LET sorted == PlanAnalyses(cur, tgt, investment, order)
        suggestions == _generate_suggestions(sorted, investment)
        after == AnalysesAfterSuggestions(sorted, investment)
    IN  [ total_portfolio_value |-> RAdd(RSumMap(cur), investment),
          analyses |-> after,
          additional_investment_needed |-> InvestmentNeeded(after, investment),
          suggestions |-> suggestions ]

----------------------------------------------------------------------------
(* calculate_historical_growth                                             *)

\* Variant: `if old_value != 0` in place of `if old_value > 0`.
GrowthOf_NonZero(label, old, new) ==
    LET old_value == Get(old, label)
        new_value == Get(new, label)
        growth == RSub(new_value, old_value)
        growth_pct ==
            IF old_value # RZero
            THEN RMul(RDiv(growth, old_value), RInt(100))
            ELSE RZero
    IN  [ old_value |-> old_value, new_value |-> new_value,
          growth |-> growth, growth_pct |-> growth_pct ]

\* The body of the loop of calculate_historical_growth for one label.
GrowthOf(label, old, new) ==
    LET old_value == Get(old, label)
        new_value == Get(new, label)
        growth == RSub(new_value, old_value)
        growth_pct ==
            IF RLt(RZero, old_value)
            THEN RMul(RDiv(growth, old_value), RInt(100))
            ELSE RZero
    IN  [ old_value |-> old_value, new_value |-> new_value,
          growth |-> growth, growth_pct |-> growth_pct ]

\* The dict is keyed by label, so the order of the loop does not show in it.
calculate_historical_growth(old, new) ==
    [label \in DOMAIN old \cup DOMAIN new |-> GrowthOf(label, old, new)]

----------------------------------------------------------------------------
(* The inputs the engine is called with.                                   *)

\* Longest list of positions.
MaxPositions == 2

\* Two labels with a wide choice of values and targets, absent keys included.
NarrowLabels == {"A", "B"}
NarrowValues == { RInt(-1000), RInt(0), RInt(2000), RInt(8000) }
NarrowTargets == { RInt(0), Rat(39, 2), Rat(41, 2), RInt(30), RInt(70) }

\* Five labels, each in both maps, each holding one of a few (value, target)
\* pairs.  The engine treats labels as opaque keys and every iteration order
\* of the label set is explored, so a portfolio is taken once up to a
\* renaming of its labels: the holdings are assigned in non-decreasing order.
WideLabels == {"A", "B", "C", "D", "E"}
WideOrder == << "A", "B", "C", "D", "E" >>
WideHoldings ==
    << [value |-> RInt(0), target |-> RInt(10)],
       [value |-> RInt(0), target |-> RInt(30)],
       [value |-> RInt(1000), target |-> RInt(10)],
       [value |-> RInt(1000), target |-> RInt(30)] >>
WideAssignments ==
    { f \in [1..Len(WideOrder) -> 1..Len(WideHoldings)] :
        \A i \in 1..(Len(WideOrder) - 1) : f[i] <= f[i + 1] }
IndexOf(label) == CHOOSE i \in 1..Len(WideOrder) : WideOrder[i] = label

\* Values of two snapshots: losses, gains and values that cancel out.
GrowthValues == { RInt(-1000), RInt(0), RInt(1000), RInt(2000) }

InvestmentChoices == { RInt(0), RInt(1000), RInt(2000) }

PositionChoices ==
    [ value : { RInt(-500), RInt(2000) },
      custom_label : { None, "", "A", "B" },
      sub_category : { "X", "Y" } ]

PositionLists == UNION { [1..n -> PositionChoices] : n \in 0..MaxPositions }

\* The dicts with keys among `labels` and values among `values`.
MapsOver(labels, values) == UNION { [D -> values] : D \in SUBSET labels }

NoPlan ==
    [ total_portfolio_value |-> RZero, analyses |-> << >>,
      additional_investment_needed |-> RZero, suggestions |-> << >> ]

\* An Optional value: None is the empty sequence, a value x is << x >>.
Nothing == << >>
Some(x) == << x >>

\* st.session_state before the first run of the page.
NoSession == [x \in {} |-> RZero]

\* Two callers of the engine, as two reruns of the page would be.
Callers == {1, 2}

NoFrame ==
    [ pc |-> "idle", op |-> "none", i |-> 0, order |-> << >>, interleaved |-> FALSE,
      args |-> [ positions |-> << >>, use_custom_labels |-> TRUE,
                 current_allocation |-> EmptyMap, target_allocations |-> EmptyMap,
                 additional_investment |-> RZero ] ]
NoLocals == [ allocation |-> EmptyMap, analyses |-> << >> ]
NoResult == [ allocation |-> EmptyMap, plan |-> NoPlan ]

\* No call has been made yet.
NoCalls ==
    /\ call = "none"
    /\ allocation = EmptyMap
    /\ percentages = EmptyMap
    /\ growth_data = EmptyMap
    /\ plan_again = NoPlan
    /\ analyses_before = << >>
    /\ frame = [c \in Callers |-> NoFrame]
    /\ locals = [f \in Callers |-> NoLocals]
    /\ result = [c \in Callers |-> NoResult]
    /\ seguranca_info = Nothing
    /\ default_investment = RZero
    /\ session_state = NoSession
    /\ analyses = << >>
    /\ plan = NoPlan
    /\ pass_trace = << >>

\* An empty database, apart from the targets table.
NoStore ==
    /\ stored_positions = << >>
    /\ asset_mappings = [a \in {} |-> ""]
    /\ asset_name = ""

NoStatus == << "", "", "" >>

NoPgblResults ==
    /\ taxable_income = RZero
    /\ status_info = NoStatus

NoPgbl ==
    /\ entries = << >>
    /\ completion_pct = RZero
    /\ NoPgblResults

NoResults == NoCalls /\ NoStore /\ NoPgbl

\* The engine called on its own, without the dashboard's tables.
NoDashboard ==
    /\ targets = [l \in {} |-> Nothing]
    /\ reserve_positions = << >>

InitNarrow ==
    /\ current_allocation \in MapsOver(NarrowLabels, NarrowValues)
    /\ target_allocations \in MapsOver(NarrowLabels, NarrowTargets)
    /\ additional_investment \in InvestmentChoices
    /\ positions = << >>
    /\ use_custom_labels = TRUE
    /\ old_allocation = EmptyMap
    /\ new_allocation = EmptyMap
    /\ NoDashboard

InitWide ==
    /\ \E f \in WideAssignments :
          /\ current_allocation = [l \in WideLabels |-> WideHoldings[f[IndexOf(l)]].value]
          /\ target_allocations = [l \in WideLabels |-> WideHoldings[f[IndexOf(l)]].target]
    /\ additional_investment \in InvestmentChoices
    /\ positions = << >>
    /\ use_custom_labels = TRUE
    /\ old_allocation = EmptyMap
    /\ new_allocation = EmptyMap
    /\ NoDashboard

InitPositions ==
    /\ positions \in PositionLists
    /\ use_custom_labels \in BOOLEAN
    /\ current_allocation = EmptyMap
    /\ target_allocations = EmptyMap
    /\ additional_investment = RZero
    /\ old_allocation = EmptyMap
    /\ new_allocation = EmptyMap
    /\ NoDashboard

\* Two snapshots of the portfolio; the newer one is the current allocation.
InitGrowth ==
    /\ old_allocation \in MapsOver(NarrowLabels, GrowthValues)
    /\ new_allocation \in MapsOver(NarrowLabels, GrowthValues)
    /\ current_allocation = new_allocation
    /\ NoDashboard
    /\ target_allocations = EmptyMap
    /\ additional_investment = RZero
    /\ positions = << >>
    /\ use_custom_labels = TRUE

\* The worked example of the documentation: 80/20 held against 70/30.
ExampleAllocation ==
    [l \in {"Fixed Income", "Equities"} |->
        IF l = "Fixed Income" THEN RInt(8000) ELSE RInt(2000)]
ExampleTargets ==
    [l \in {"Fixed Income", "Equities"} |->
        IF l = "Fixed Income" THEN RInt(70) ELSE RInt(30)]

InitExample ==
    /\ current_allocation = ExampleAllocation
    /\ target_allocations = ExampleTargets
    /\ additional_investment \in InvestmentChoices
    /\ positions = << >>
    /\ use_custom_labels = TRUE
    /\ old_allocation = EmptyMap
    /\ new_allocation = EmptyMap
    /\ NoDashboard

Init ==
    (InitNarrow \/ InitWide \/ InitPositions \/ InitGrowth \/ InitExample) /\ NoResults

----------------------------------------------------------------------------
(* One action per engine function: the call and its result.                *)

\* What only the second call and the history of the first one write.
Again == << plan_again, analyses_before >>

\* What only the interleaved callers write.
Interleaved == << frame, locals, result >>

\* What only the database operations and the PGBL calculator read and write.
Database == << stored_positions, asset_mappings, asset_name >>
Pgbl == << entries, completion_pct, taxable_income, status_info >>

\* What only the dashboard reads and writes.
Dashboard == << targets, reserve_positions, seguranca_info, default_investment,
               session_state >>

Inputs == << positions, use_custom_labels, current_allocation, target_allocations,
             additional_investment, old_allocation, new_allocation >>

CalculateCurrentAllocation ==
    /\ call = "none"
    /\ call' = "calculate_current_allocation"
    /\ allocation' = calculate_current_allocation(positions, use_custom_labels)
    /\ UNCHANGED << Inputs, percentages, analyses, plan, growth_data, pass_trace, Again, Interleaved, Dashboard, Database, Pgbl >>

CalculateAllocationPercentages ==
    /\ call = "none"
    /\ call' = "calculate_allocation_percentages"
    /\ percentages' = calculate_allocation_percentages(current_allocation)
    /\ UNCHANGED << Inputs, allocation, analyses, plan, growth_data, pass_trace, Again, Interleaved, Dashboard, Database, Pgbl >>

AnalyzeAllocation ==
    /\ call = "none"
    /\ \E order \in IterationOrders(AllLabels(current_allocation, target_allocations)) :
          analyses' = analyze_allocation(current_allocation, target_allocations, order)
    /\ call' = "analyze_allocation"
    /\ UNCHANGED << Inputs, allocation, percentages, plan, growth_data, pass_trace, Again, Interleaved, Dashboard, Database, Pgbl >>

CreateRebalancingPlan ==
    /\ call = "none"
    /\ \E order \in IterationOrders(AllLabels(current_allocation, target_allocations)) :
          /\ plan' = create_rebalancing_plan(current_allocation, target_allocations,
                                             additional_investment, order)
          /\ analyses_before' = PlanAnalyses(current_allocation, target_allocations,
                                              additional_investment, order)
          /\ pass_trace' = GreedySteps(analyses_before', additional_investment)
    /\ call' = "create_rebalancing_plan"
    /\ UNCHANGED << Inputs, allocation, percentages, analyses, growth_data, plan_again, Interleaved, Dashboard, Database, Pgbl >>

CalculateHistoricalGrowth ==
    /\ call = "none"
    /\ call' = "calculate_historical_growth"
    /\ growth_data' = calculate_historical_growth(old_allocation, new_allocation)
    /\ UNCHANGED << Inputs, allocation, percentages, analyses, plan, pass_trace, Again, Interleaved, Dashboard, Database, Pgbl >>

Next ==
    \/ CalculateCurrentAllocation
    \/ CalculateAllocationPercentages
    \/ AnalyzeAllocation
    \/ CreateRebalancingPlan
    \/ CalculateHistoricalGrowth

Spec == Init /\ [][Next]_vars

----------------------------------------------------------------------------
(* Two calls of create_rebalancing_plan with the same inputs.  The set of
   labels is built anew in each call, and the order a set of strings is
   iterated in is not fixed by the language: it follows the hashes of the
   strings, which change from one run of the interpreter to the next.      *)

InitTwice == InitNarrow /\ NoResults

CreateRebalancingPlanAgain ==
    /\ call = "create_rebalancing_plan"
    /\ \E order \in IterationOrders(AllLabels(current_allocation, target_allocations)) :
          plan_again' = create_rebalancing_plan(current_allocation, target_allocations,
                                                additional_investment, order)
    /\ call' = "create_rebalancing_plan_again"
    /\ UNCHANGED << Inputs, allocation, percentages, analyses, plan, growth_data,
                    analyses_before, pass_trace, Interleaved, Dashboard, Database, Pgbl >>

NextTwice == CreateRebalancingPlan \/ CreateRebalancingPlanAgain

SpecTwice == InitTwice /\ [][NextTwice]_vars

----------------------------------------------------------------------------
(* Properties.  Helpers first: what a property reads off a state.          *)

PlanDone == call = "create_rebalancing_plan"
AnalyzeDone == call = "analyze_allocation"
AllocationDone == call = "calculate_current_allocation"

\* The analyses the call returned (of either function), as a sequence.
Returned == IF PlanDone THEN plan.analyses ELSE IF AnalyzeDone THEN analyses ELSE << >>

RPositive(r) == r.n > 0
RNegative(r) == r.n < 0

\* The total the returned percentages are relative to.
ReferenceTotal ==
    IF PlanDone THEN RAdd(RSumMap(current_allocation), additional_investment)
    ELSE RSumMap(current_allocation)

NonNegativeAllocation == \A l \in DOMAIN current_allocation : current_allocation[l].n >= 0

CountStatus(as, st) == Cardinality({ i \in 1..Len(as) : as[i].status = st })

\* abs(difference_percentage) of a, as a comparison of integers
AbsDiffGeq(a, b) ==
    Abs(a.difference_percentage.n) * b.difference_percentage.d
        >= Abs(b.difference_percentage.n) * a.difference_percentage.d

\* C1: in the analyses of a plan every 'underweight' analysis comes before
\* every analysis of another status, and inside each of the two groups the
\* analyses are in descending order of abs(difference_percentage).
C1_UnderweightFirst ==
    PlanDone =>
        \A i, j \in 1..Len(plan.analyses) :
            i < j =>
                LET a == plan.analyses[i]
                    b == plan.analyses[j]
                IN  /\ ~(a.status # "underweight" /\ b.status = "underweight")
                    /\ ((a.status = "underweight") = (b.status = "underweight"))
                          => AbsDiffGeq(a, b)

\* The sign convention on one analysis.
SignConvention(a) ==
    /\ a.status = "underweight" => RPositive(a.rebalance_amount)
    /\ a.status = "overweight" => RNegative(a.rebalance_amount)

\* C2 (as stated): for every current allocation of non-negative values, an
\* empty or all-zero one included, 'underweight' implies rebalance_amount > 0
\* and 'overweight' implies rebalance_amount < 0, in the result of
\* analyze_allocation and of create_rebalancing_plan.
C2_SignConventionAlways ==
    NonNegativeAllocation =>
        \A i \in 1..Len(Returned) : SignConvention(Returned[i])

\* C2 (amended): the same, for every current allocation of non-negative values
\* whose total (plus additional_investment, for a plan) is greater than 0.
C2_SignConventionPositiveTotal ==
    (NonNegativeAllocation /\ RPositive(ReferenceTotal)) =>
        \A i \in 1..Len(Returned) : SignConvention(Returned[i])

C2_Witness ==
    /\ PlanDone
    /\ NonNegativeAllocation
    /\ RPositive(additional_investment)
    /\ CountStatus(plan.analyses, "underweight") >= 1
    /\ CountStatus(plan.analyses, "overweight") >= 1


\* What the claims call the underweight labels of the new-money branch.
UnderweightToFund(a) == a.status = "underweight" /\ a.rebalance_amount.n > 0
IsInvestLine(line) == line.kind = "invest"
IsReduceLine(line) == line.kind = "reduce"
IsIncreaseLine(line) == line.kind = "increase"

\* The pool before step i of the greedy pass.
PoolBefore(i) == IF i = 1 THEN additional_investment ELSE pass_trace[i - 1].remaining

\* C3: with additional_investment > 0 the greedy pass walks the analyses with
\* status 'underweight' and rebalance_amount > 0 in plan order, assigns to each
\* min(rebalance_amount, remaining) from a pool that starts at
\* additional_investment, subtracts it from the pool and stops as soon as the
\* pool is <= 0; no label gets more than its rebalance_amount, none is funded
\* before its predecessor in plan order is funded in full, and the suggestions
\* carry one invest line per assignment, in that order.
C3_GreedyAssignment ==
    (PlanDone /\ RPositive(additional_investment)) =>
        LET todo == SelectSeq(plan.analyses, UnderweightToFund)
            lines == SelectSeq(plan.suggestions, IsInvestLine)
            n == Len(pass_trace)
        IN  /\ n <= Len(todo)
            /\ \A i \in 1..n :
                  LET step == pass_trace[i]
                      due == todo[i].rebalance_amount
                  IN  /\ step.analysis = todo[i]
                      /\ RPositive(PoolBefore(i))
                      /\ step.amount = (IF RLt(PoolBefore(i), due) THEN PoolBefore(i) ELSE due)
                      /\ step.remaining = RSub(PoolBefore(i), step.amount)
                      /\ RLe(step.amount, due)
                      /\ i > 1 => pass_trace[i - 1].amount = todo[i - 1].rebalance_amount
            /\ n < Len(todo) => ~RPositive(PoolBefore(n + 1))
            /\ Len(lines) = n
            /\ \A i \in 1..n :
                  /\ lines[i].label = pass_trace[i].analysis.label
                  /\ lines[i].amount = Fmt2(pass_trace[i].amount)

\* Two labels funded, the second only in part, and a third left without funds.
C3_Witness ==
    /\ PlanDone
    /\ RPositive(additional_investment)
    /\ Len(pass_trace) >= 2
    /\ Len(pass_trace) < Len(SelectSeq(plan.analyses, UnderweightToFund))
    /\ RLt(pass_trace[Len(pass_trace)].amount,
           pass_trace[Len(pass_trace)].analysis.rebalance_amount)

\* What the greedy pass left of additional_investment.
Unassigned ==
    RSub(additional_investment, RSumSeq([i \in 1..Len(pass_trace) |-> pass_trace[i].amount]))

\* C4: with additional_investment > 0, when part of it is left un-assigned after
\* the greedy pass (also when no label is underweight and all of it is left),
\* the suggestions contain the leftover note reporting that remainder.
C4_LeftoverReported ==
    (PlanDone /\ RPositive(additional_investment) /\ RPositive(Unassigned)) =>
        \E i \in 1..Len(plan.suggestions) :
            /\ plan.suggestions[i].kind = "leftover"
            /\ plan.suggestions[i].amount = Fmt2(Unassigned)

\* The labels of a sequence of analyses or of suggestion lines, in order.
LabelsOf(s) == [i \in 1..Len(s) |-> s[i].label]
Prefix(s, n) == [i \in 1..(IF Len(s) < n THEN Len(s) ELSE n) |-> s[i]]
IsOver(a) == a.status = "overweight"
IsUnder(a) == a.status = "underweight"

\* The reductions and increases of the suggestions are the first three (or
\* fewer) overweight and underweight analyses, in plan order.
TopThreeReported ==
    LET over == SelectSeq(plan.analyses, IsOver)
        under == SelectSeq(plan.analyses, IsUnder)
        reduce == SelectSeq(plan.suggestions, IsReduceLine)
        increase == SelectSeq(plan.suggestions, IsIncreaseLine)
    IN  /\ LabelsOf(reduce) = LabelsOf(Prefix(over, 3))
        /\ LabelsOf(increase) = LabelsOf(Prefix(under, 3))
        /\ \A i \in 1..Len(reduce) : reduce[i].amount = Fmt2(RAbs(Prefix(over, 3)[i].rebalance_amount))
        /\ \A i \in 1..Len(increase) : increase[i].amount = Fmt2(Prefix(under, 3)[i].rebalance_amount)

\* C5 (as stated): with additional_investment == 0 the suggestions report the
\* first min(3, n) overweight analyses as reductions and the first min(3, n)
\* underweight analyses as increases, in plan order, for every plan (also one
\* with overweight but no underweight labels, or the reverse).
C5_TopThreeAlways ==
    (PlanDone /\ additional_investment = RZero) => TopThreeReported

\* C5 (amended): with additional_investment == 0 and at least one overweight
\* and at least one underweight analysis in the plan, the suggestions report
\* the first min(3, n) of each, in plan order; with no overweight or no
\* underweight analysis the suggestions are empty.
C5_TopThreeWhenBothPresent ==
    (PlanDone /\ additional_investment = RZero) =>
        IF CountStatus(plan.analyses, "overweight") >= 1
           /\ CountStatus(plan.analyses, "underweight") >= 1
        THEN TopThreeReported
        ELSE plan.suggestions = << >>

\* Four underweight labels, of which three are reported, and one overweight.
C5_Witness ==
    /\ PlanDone
    /\ additional_investment = RZero
    /\ CountStatus(plan.analyses, "underweight") >= 4
    /\ CountStatus(plan.analyses, "overweight") >= 1
    /\ Len(SelectSeq(plan.suggestions, IsIncreaseLine)) = 3

\* The sum of the positive rebalance amounts of a sequence of analyses.
RECURSIVE PositiveRebalanceSum(_)
PositiveRebalanceSum(as) ==
    IF as = << >> THEN RZero
    ELSE IF Head(as).rebalance_amount.n > 0
         THEN RAdd(Head(as).rebalance_amount, PositiveRebalanceSum(Tail(as)))
         ELSE PositiveRebalanceSum(Tail(as))

\* C6: additional_investment_needed is the sum of the positive rebalance
\* amounts of the plan's analyses when additional_investment == 0, and 0 when
\* additional_investment > 0.
C6_InvestmentNeeded ==
    PlanDone =>
        /\ additional_investment = RZero =>
              plan.additional_investment_needed = PositiveRebalanceSum(plan.analyses)
        /\ RPositive(additional_investment) => plan.additional_investment_needed = RZero

\* No new money, and both a positive and a negative rebalance amount.
C6_Witness ==
    /\ PlanDone
    /\ additional_investment = RZero
    /\ RPositive(plan.additional_investment_needed)
    /\ \E i \in 1..Len(plan.analyses) : RNegative(plan.analyses[i].rebalance_amount)


\* The amounts and differences of one analysis of a plan, from the inputs
\* alone; pct is the current percentage the statement gives for new_total.
PlanArithmetic(a, new_total, pct) ==
    LET value == Get(current_allocation, a.label)
        target == Get(target_allocations, a.label)
    IN  /\ a.current_value = value
        /\ a.target_percentage = target
        /\ a.rebalance_amount = RSub(Rat(target.n * new_total.n, target.d * new_total.d * 100), value)
        /\ a.current_percentage = pct
        /\ a.difference_percentage = RSub(pct, target)

NewTotal == RAdd(RSumMap(current_allocation), additional_investment)

\* C7 (as stated): for every label of a plan, with new_total =
\* sum(current_allocation) + additional_investment, rebalance_amount =
\* target_percentage/100 * new_total - current_value, current_percentage =
\* current_value / new_total * 100 (0 when new_total is 0) and
\* difference_percentage = current_percentage - target_percentage.
C7_PlanArithmeticZeroTotal ==
    PlanDone =>
        \A i \in 1..Len(plan.analyses) :
            LET a == plan.analyses[i]
            IN  PlanArithmetic(a, NewTotal,
                    IF NewTotal = RZero THEN RZero
                    ELSE Rat(a.current_value.n * 100 * NewTotal.d, a.current_value.d * NewTotal.n))

\* C7 (amended): the same, with current_percentage 0 whenever new_total is not
\* greater than 0 (a negative new_total included).
C7_PlanArithmetic ==
    PlanDone =>
        \A i \in 1..Len(plan.analyses) :
            LET a == plan.analyses[i]
            IN  PlanArithmetic(a, NewTotal,
                    IF NewTotal.n <= 0 THEN RZero
                    ELSE Rat(a.current_value.n * 100 * NewTotal.d, a.current_value.d * NewTotal.n))

\* New money, and two labels that hold a value and have a target.
C7_Witness ==
    /\ PlanDone
    /\ RPositive(additional_investment)
    /\ Cardinality({ i \in 1..Len(plan.analyses) :
                        /\ RPositive(plan.analyses[i].current_value)
                        /\ RPositive(plan.analyses[i].target_percentage)
                        /\ plan.analyses[i].rebalance_amount # RZero }) >= 2

\* C8: in analyze_allocation and in create_rebalancing_plan a label is
\* 'balanced' exactly when abs(difference_percentage) <= 0.5 (0.5 and -0.5
\* included), 'overweight' when the difference is > 0.5, 'underweight' when it
\* is < -0.5; a label whose current percentage equals its target is balanced.
C8_ToleranceBand ==
    \A i \in 1..Len(Returned) :
        LET a == Returned[i]
            diff == a.difference_percentage
        IN  /\ (a.status = "balanced") = (2 * Abs(diff.n) <= diff.d)
            /\ (a.status = "overweight") = (2 * diff.n > diff.d)
            /\ (a.status = "underweight") = (2 * diff.n < -diff.d)
            /\ a.current_percentage = a.target_percentage => a.status = "balanced"

\* A difference of exactly 0.5 percentage points.
C8_Witness ==
    \E i \in 1..Len(Returned) :
        /\ Returned[i].difference_percentage = Rat(1, 2)
        /\ Returned[i].status = "balanced"

\* C9: analyze_allocation and create_rebalancing_plan return exactly one
\* analysis per label of the union of the keys of the two maps; a label absent
\* from current_allocation has current_value 0, one absent from
\* target_allocations has target_percentage 0.
C9_OnePerLabel ==
    (PlanDone \/ AnalyzeDone) =>
        /\ { Returned[i].label : i \in 1..Len(Returned) }
              = DOMAIN current_allocation \cup DOMAIN target_allocations
        /\ \A i, j \in 1..Len(Returned) : Returned[i].label = Returned[j].label => i = j
        /\ \A i \in 1..Len(Returned) :
              /\ Returned[i].label \notin DOMAIN current_allocation
                    => Returned[i].current_value = RZero
              /\ Returned[i].label \notin DOMAIN target_allocations
                    => Returned[i].target_percentage = RZero

\* One label only in current_allocation and one only in target_allocations.
C9_Witness ==
    /\ PlanDone \/ AnalyzeDone
    /\ (DOMAIN current_allocation) \ (DOMAIN target_allocations) # {}
    /\ (DOMAIN target_allocations) \ (DOMAIN current_allocation) # {}
    /\ Len(Returned) = 2

\* C10: for every list of positions and either grouping mode the values of the
\* map of calculate_current_allocation sum to the sum of the positions'
\* values, negative values included.
C10_Conservation ==
    AllocationDone =>
        RSumMap(allocation) = RSumSeq([i \in 1..Len(positions) |-> positions[i].value])

\* Two positions in one group, one of them of negative value.
C10_Witness ==
    /\ AllocationDone
    /\ Len(positions) = 2
    /\ Cardinality(DOMAIN allocation) = 1
    /\ \E i \in 1..Len(positions) : RNegative(positions[i].value)
    /\ \E i \in 1..Len(positions) : RPositive(positions[i].value)


\* The grouping label of a position when an absent (None) custom label alone
\* goes under the sentinel.
LabelNullOnly(position) ==
    IF use_custom_labels
    THEN IF position.custom_label = None THEN UNCLASSIFIED ELSE position.custom_label
    ELSE position.sub_category

\* The grouping label of a position when an absent or empty custom label goes
\* under the sentinel.
LabelNullOrEmpty(position) ==
    IF use_custom_labels
    THEN IF position.custom_label \in { None, "" } THEN UNCLASSIFIED
         ELSE position.custom_label
    ELSE position.sub_category

\* C11 (as stated): the keys of the map of calculate_current_allocation are
\* the distinct grouping labels of the positions, a position with an absent
\* (null) custom label counted under the sentinel and every other position
\* under its own custom label; an empty list gives an empty map.
C11_KeysNullOnly ==
    AllocationDone =>
        DOMAIN allocation = { LabelNullOnly(positions[i]) : i \in 1..Len(positions) }

\* C11 (amended): the same, with a position whose custom label is absent
\* (null) or the empty string counted under the sentinel.
C11_KeysNullOrEmpty ==
    AllocationDone =>
        DOMAIN allocation = { LabelNullOrEmpty(positions[i]) : i \in 1..Len(positions) }

\* Custom-label grouping of a position with an empty custom label and one
\* with a label of its own.
C11_Witness ==
    /\ AllocationDone
    /\ use_custom_labels
    /\ \E i, j \in 1..Len(positions) :
          /\ positions[i].custom_label = ""
          /\ positions[j].custom_label = "A"
    /\ DOMAIN allocation = { UNCLASSIFIED, "A" }

\* C12: total_portfolio_value of a plan is sum(current_allocation.values())
\* + additional_investment.
C12_PlanTotal ==
    PlanDone =>
        plan.total_portfolio_value = RAdd(RSumMap(current_allocation), additional_investment)

\* New money on top of two holdings.
C12_Witness ==
    /\ PlanDone
    /\ RPositive(additional_investment)
    /\ Cardinality(DOMAIN current_allocation) >= 2
    /\ RPositive(RSumMap(current_allocation))

\* C13: the list of analyze_allocation is in descending order of
\* abs(difference_percentage): each analysis has an absolute difference at
\* least that of the next one.
C13_AnalyzeDescending ==
    AnalyzeDone =>
        \A i \in 1..(Len(analyses) - 1) : AbsDiffGeq(analyses[i], analyses[i + 1])

\* A negative difference sorted before a positive one of smaller size, and a
\* third analysis after them.
C13_Witness ==
    /\ AnalyzeDone
    /\ Len(analyses) >= 3
    /\ RNegative(analyses[1].difference_percentage)
    /\ RPositive(analyses[2].difference_percentage)
    /\ ~AbsDiffGeq(analyses[2], analyses[1])
    /\ ~AbsDiffGeq(analyses[3], analyses[2])

PercentagesDone == call = "calculate_allocation_percentages"
GrowthDone == call = "calculate_historical_growth"

\* C14: the percentages of calculate_allocation_percentages are keyed like
\* the allocation; they sum to 100 when the allocation values sum to more
\* than 0, and each of them is 0 when the values sum to 0.  (Floats are
\* exact rationals here, so the sum is 100 exactly.)
C14_PercentagesSum ==
    PercentagesDone =>
        LET total == RSumMap(current_allocation)
        IN  /\ DOMAIN percentages = DOMAIN current_allocation
            /\ RPositive(total) => RSumMap(percentages) = RInt(100)
            /\ total = RZero => \A k \in DOMAIN percentages : percentages[k] = RZero

\* Two labels of a positive total, one of them with a negative value, so one
\* percentage is below 0 and the other above 100.
C14_Witness ==
    /\ PercentagesDone
    /\ Cardinality(DOMAIN current_allocation) = 2
    /\ RPositive(RSumMap(current_allocation))
    /\ \E k \in DOMAIN percentages : RNegative(percentages[k])
    /\ \E k \in DOMAIN percentages : RLt(RInt(100), percentages[k])

\* The entry of one label with growth_pct = growth / old_value * 100 for
\* every old_value other than 0.
GrowthEntryNonZero(label) ==
    LET old_value == Get(old_allocation, label)
        new_value == Get(new_allocation, label)
    IN  /\ growth_data[label].old_value = old_value
        /\ growth_data[label].new_value = new_value
        /\ growth_data[label].growth = RSub(new_value, old_value)
        /\ old_value # RZero =>
               growth_data[label].growth_pct =
                   RMul(RDiv(RSub(new_value, old_value), old_value), RInt(100))
        /\ old_value = RZero => growth_data[label].growth_pct = RZero

\* The entry of one label with growth_pct = growth / old_value * 100 for
\* every old_value above 0, and 0 for every other old_value.
GrowthEntryPositive(label) ==
    LET old_value == Get(old_allocation, label)
        new_value == Get(new_allocation, label)
    IN  /\ growth_data[label].old_value = old_value
        /\ growth_data[label].new_value = new_value
        /\ growth_data[label].growth = RSub(new_value, old_value)
        /\ RPositive(old_value) =>
               growth_data[label].growth_pct =
                   RMul(RDiv(RSub(new_value, old_value), old_value), RInt(100))
        /\ ~RPositive(old_value) => growth_data[label].growth_pct = RZero

\* C16 (as stated): calculate_historical_growth returns one entry per label
\* of the union of the keys of the two allocations, a missing value taken as
\* 0, with growth = new_value - old_value, growth_pct = growth / old_value *
\* 100 for every old_value other than 0, and growth_pct = 0 for old_value 0.
C16_GrowthNonZero ==
    GrowthDone =>
        /\ DOMAIN growth_data = DOMAIN old_allocation \cup DOMAIN new_allocation
        /\ \A label \in DOMAIN growth_data : GrowthEntryNonZero(label)

\* C16 (amended): the same, with growth_pct = growth / old_value * 100 only
\* for an old_value above 0, and growth_pct = 0 for an old_value of 0 or
\* below 0.
C16_GrowthPositive ==
    GrowthDone =>
        /\ DOMAIN growth_data = DOMAIN old_allocation \cup DOMAIN new_allocation
        /\ \A label \in DOMAIN growth_data : GrowthEntryPositive(label)

\* One label only in the old allocation with a negative value, one only in
\* the new allocation: the first has growth_pct 0 with a growth other than 0,
\* the second has old_value 0.
C16_Witness ==
    /\ GrowthDone
    /\ \E a \in DOMAIN old_allocation \ DOMAIN new_allocation :
           /\ RNegative(old_allocation[a])
           /\ growth_data[a].growth # RZero
           /\ growth_data[a].growth_pct = RZero
    /\ \E b \in DOMAIN new_allocation \ DOMAIN old_allocation :
           /\ growth_data[b].old_value = RZero
           /\ RPositive(growth_data[b].growth)

\* A float that is not the outcome of a division by zero.
NoError(r) == r.d # 0

AnalysisNoError(a) ==
    /\ NoError(a.current_value)
    /\ NoError(a.current_percentage)
    /\ NoError(a.target_percentage)
    /\ NoError(a.difference_percentage)
    /\ NoError(a.rebalance_amount)

\* C17: no call of calculate_allocation_percentages, analyze_allocation,
\* create_rebalancing_plan or calculate_historical_growth ends in a division
\* by zero, and the percentage whose divisor is 0 is reported as 0: every
\* percentage of an allocation that sums to 0, every current_percentage of
\* an analysis over a total (or new total) of 0, and growth_pct of an
\* old_value of 0.
C17_NoDivisionByZero ==
    /\ PercentagesDone =>
           /\ \A k \in DOMAIN percentages : NoError(percentages[k])
           /\ RSumMap(current_allocation) = RZero =>
                  \A k \in DOMAIN percentages : percentages[k] = RZero
    /\ AnalyzeDone \/ PlanDone =>
           /\ \A i \in 1..Len(Returned) : AnalysisNoError(Returned[i])
           /\ ReferenceTotal = RZero =>
                  \A i \in 1..Len(Returned) : Returned[i].current_percentage = RZero
    /\ PlanDone =>
           /\ NoError(plan.total_portfolio_value)
           /\ NoError(plan.additional_investment_needed)
    /\ GrowthDone =>
           \A label \in DOMAIN growth_data :
               /\ NoError(growth_data[label].growth)
               /\ NoError(growth_data[label].growth_pct)
               /\ growth_data[label].old_value = RZero =>
                      growth_data[label].growth_pct = RZero

\* Percentages of two values other than 0 that cancel out.
C17_Witness ==
    /\ PercentagesDone
    /\ Cardinality(DOMAIN current_allocation) = 2
    /\ RSumMap(current_allocation) = RZero
    /\ \A k \in DOMAIN current_allocation : current_allocation[k] # RZero
    /\ \A k \in DOMAIN percentages : percentages[k] = RZero

----------------------------------------------------------------------------
(* Two callers whose calls of calculate_current_allocation and of
   create_rebalancing_plan interleave step by step.  Every method of the
   engine is a @staticmethod without class or module state: `allocation`
   and `analyses` are locals, created by each call.                        *)

\* Variant: `allocation` and `analyses` held once for all callers, as class
\* attributes would be.
FrameOf_Shared(c) == 1

\* The frame that holds the locals of the call of caller c.
FrameOf(c) == c

Arguments ==
    [ positions |-> positions, use_custom_labels |-> use_custom_labels,
      current_allocation |-> current_allocation,
      target_allocations |-> target_allocations,
      additional_investment |-> additional_investment ]

\* One pass of the loop of calculate_current_allocation.
AddPosition(alloc, position, ucl) ==
    LET key  == GroupKey(position, ucl)
        base == IF key \notin DOMAIN alloc THEN alloc @@ (key :> RZero) ELSE alloc
    IN  [base EXCEPT ![key] = RAdd(@, position.value)]

\* analyses.sort(key=..., reverse=True) of create_rebalancing_plan.
SortPlan(appended) ==
    Items(SortReverse([i \in 1..Len(appended) |->
                          [key |-> PlanKey(appended[i]), item |-> appended[i]]]))

\* The return statement of create_rebalancing_plan, after the sort.
RebalancingPlan(sorted, new_total, investment) ==
    LET suggestions == _generate_suggestions(sorted, investment)
        after == AnalysesAfterSuggestions(sorted, investment)
    IN  [ total_portfolio_value |-> new_total,
          analyses |-> after,
          additional_investment_needed |-> InvestmentNeeded(after, investment),
          suggestions |-> suggestions ]

InCall(c) == frame[c].pc \in { "allocation_loop", "plan_loop" }
Other(c) == CHOOSE o \in Callers : o # c

\* A step of caller c, taken while the other caller is inside a call.
Stepped(c) == [frame[c] EXCEPT !.interleaved = @ \/ InCall(Other(c))]

Single == << call, allocation, percentages, analyses, plan, growth_data, pass_trace, Again >>

InterleavedPositions ==
    { [value |-> RInt(2000), custom_label |-> "A", sub_category |-> "X"],
      [value |-> RInt(-500), custom_label |-> "B", sub_category |-> "Y"] }
InterleavedTargets == { [l \in {"A", "B"} |-> RInt(30)], [l \in {"A"} |-> RInt(70)] }
InterleavedInvestments == { RInt(1000) }

\* The dashboard's inputs: the current allocation is the one computed from
\* the positions.
InitInterleaved ==
    /\ positions \in [1..MaxPositions -> InterleavedPositions]
    /\ use_custom_labels = TRUE
    /\ current_allocation = calculate_current_allocation(positions, use_custom_labels)
    /\ target_allocations \in InterleavedTargets
    /\ additional_investment \in InterleavedInvestments
    /\ old_allocation = EmptyMap
    /\ new_allocation = EmptyMap
    /\ NoDashboard
    /\ NoResults

\* allocation = {}
CallCurrentAllocation ==
    \E c \in Callers :
        /\ ~InCall(c)
        /\ frame' = [frame EXCEPT ![c] =
                        [ pc |-> "allocation_loop", op |-> "calculate_current_allocation",
                          i |-> 0, order |-> << >>, interleaved |-> InCall(Other(c)),
                          args |-> Arguments ]]
        /\ locals' = [locals EXCEPT ![FrameOf(c)].allocation = EmptyMap]
        /\ UNCHANGED << Inputs, Single, result, Dashboard, Database, Pgbl >>

\* One pass of `for position in positions`.
StepCurrentAllocation ==
    \E c \in Callers :
        /\ frame[c].pc = "allocation_loop"
        /\ frame[c].i < Len(positions)
        /\ locals' = [locals EXCEPT ![FrameOf(c)].allocation =
                          AddPosition(@, positions[frame[c].i + 1], use_custom_labels)]
        /\ frame' = [frame EXCEPT ![c] = [Stepped(c) EXCEPT !.i = @ + 1]]
        /\ UNCHANGED << Inputs, Single, result, Dashboard, Database, Pgbl >>

\* return allocation
ReturnCurrentAllocation ==
    \E c \in Callers :
        /\ frame[c].pc = "allocation_loop"
        /\ frame[c].i = Len(positions)
        /\ result' = [result EXCEPT ![c].allocation = locals[FrameOf(c)].allocation]
        /\ frame' = [frame EXCEPT ![c] = [Stepped(c) EXCEPT !.pc = "done"]]
        /\ UNCHANGED << Inputs, Single, locals, Dashboard, Database, Pgbl >>

\* analyses = []; all_labels = set(...) | set(...)
CallRebalancingPlan ==
    \E c \in Callers :
        /\ ~InCall(c)
        /\ \E order \in IterationOrders(AllLabels(current_allocation, target_allocations)) :
              frame' = [frame EXCEPT ![c] =
                           [ pc |-> "plan_loop", op |-> "create_rebalancing_plan",
                             i |-> 0, order |-> order, interleaved |-> InCall(Other(c)),
                             args |-> Arguments ]]
        /\ locals' = [locals EXCEPT ![FrameOf(c)].analyses = << >>]
        /\ UNCHANGED << Inputs, Single, result, Dashboard, Database, Pgbl >>

\* One pass of `for label in all_labels`.
StepRebalancingPlan ==
    \E c \in Callers :
        /\ frame[c].pc = "plan_loop"
        /\ frame[c].i < Len(frame[c].order)
        /\ LET total_value == RSumMap(current_allocation)
               new_total == RAdd(total_value, additional_investment)
           IN  locals' = [locals EXCEPT ![FrameOf(c)].analyses =
                             Append(@, PlanLabel(frame[c].order[frame[c].i + 1],
                                                 current_allocation, target_allocations,
                                                 total_value, new_total))]
        /\ frame' = [frame EXCEPT ![c] = [Stepped(c) EXCEPT !.i = @ + 1]]
        /\ UNCHANGED << Inputs, Single, result, Dashboard, Database, Pgbl >>

\* The sort, the suggestions and the return.
ReturnRebalancingPlan ==
    \E c \in Callers :
        /\ frame[c].pc = "plan_loop"
        /\ frame[c].i = Len(frame[c].order)
        /\ result' = [result EXCEPT ![c].plan =
                          RebalancingPlan(SortPlan(locals[FrameOf(c)].analyses),
                                          RAdd(RSumMap(current_allocation),
                                               additional_investment),
                                          additional_investment)]
        /\ frame' = [frame EXCEPT ![c] = [Stepped(c) EXCEPT !.pc = "done"]]
        /\ UNCHANGED << Inputs, Single, locals, Dashboard, Database, Pgbl >>

NextInterleaved ==
    \/ CallCurrentAllocation
    \/ StepCurrentAllocation
    \/ ReturnCurrentAllocation
    \/ CallRebalancingPlan
    \/ StepRebalancingPlan
    \/ ReturnRebalancingPlan

SpecInterleaved == InitInterleaved /\ [][NextInterleaved]_vars

----------------------------------------------------------------------------
(* The dashboard's rebalancing section: the reserve category is taken out
   of the targets, its excess over the reserve becomes the default of the
   investment input, and the plan is made from what the input returns.     *)

\* "Segurança" in the source (written here without the cedilla).
SEGURANCA == "Seguranca"

\* `if t.reserve_amount`: None and 0.0 are both falsy.
HasReserve(t) == t.reserve_amount # Nothing /\ t.reserve_amount[1] # RZero

\* db.get_target(label)
get_target(tbl, label) == IF label \in DOMAIN tbl THEN Some(tbl[label]) ELSE Nothing

\* The labels render_dashboard keeps: those with a target above 0, and
\* those with a reserve above 0.
TargetLabels(tbl) == { l \in DOMAIN tbl : RLt(RZero, tbl[l].target_percentage) }
ReserveLabel(tbl) ==
    { l \in DOMAIN tbl : HasReserve(tbl[l]) /\ RLt(RZero, tbl[l].reserve_amount[1]) }

WithLabelIn(ps, labels) ==
    LET Kept(position) == position.custom_label \in labels
    IN  SelectSeq(ps, Kept)

\* The loop that builds target_allocations: targets of 0 are left out, and
\* so is the reserve category when it has a reserve amount.
DashboardTargets(tbl) ==
    [ l \in { k \in DOMAIN tbl :
                 /\ RLt(RZero, tbl[k].target_percentage)
                 /\ ~(k = SEGURANCA /\ HasReserve(tbl[k])) }
        |-> tbl[l].target_percentage ]

\* Variant: `if excess >= 0` in place of `if excess > 0`.
SegurancaInfo_NonStrict(seguranca_target, reserve_allocation) ==
    IF seguranca_target # Nothing /\ HasReserve(seguranca_target[1])
    THEN LET current_seguranca == Get(reserve_allocation, SEGURANCA)
             reserve_amount == seguranca_target[1].reserve_amount[1]
             excess == RSub(current_seguranca, reserve_amount)
         IN  IF RLe(RZero, excess)
             THEN Some([ type |-> "excess", current |-> current_seguranca,
                         reserve |-> reserve_amount, excess |-> excess ])
             ELSE Some([ type |-> "below", current |-> current_seguranca,
                         reserve |-> reserve_amount, deficit |-> RAbs(excess) ])
    ELSE Nothing

\* seguranca_info: None without a reserve target, else the flag of the
\* excess of the reserve category over its reserve amount.
SegurancaInfo(seguranca_target, reserve_allocation) ==
    IF seguranca_target # Nothing /\ HasReserve(seguranca_target[1])
    THEN LET current_seguranca == Get(reserve_allocation, SEGURANCA)
             reserve_amount == seguranca_target[1].reserve_amount[1]
             excess == RSub(current_seguranca, reserve_amount)
         IN  IF RLt(RZero, excess)
             THEN Some([ type |-> "excess", current |-> current_seguranca,
                         reserve |-> reserve_amount, excess |-> excess ])
             ELSE IF RLt(excess, RZero)
             THEN Some([ type |-> "below", current |-> current_seguranca,
                         reserve |-> reserve_amount, deficit |-> RAbs(excess) ])
             ELSE Some([ type |-> "exact", current |-> current_seguranca,
                         reserve |-> reserve_amount ])
    ELSE Nothing

DefaultInvestment(info) ==
    IF info # Nothing /\ info[1].type = "excess" THEN info[1].excess ELSE RZero

\* The positions of a snapshot and the rows of the targets table.
DashboardPositions ==
    { [value |-> RInt(2000), custom_label |-> "A", sub_category |-> "X"],
      [value |-> RInt(-500), custom_label |-> SEGURANCA, sub_category |-> "Y"],
      [value |-> RInt(5000), custom_label |-> SEGURANCA, sub_category |-> "Y"],
      [value |-> RInt(10000), custom_label |-> SEGURANCA, sub_category |-> "Y"] }
DashboardPositionLists == UNION { [1..n -> DashboardPositions] : n \in 0..MaxPositions }
DashboardRows ==
    [ A |-> { [target_percentage |-> RInt(70), reserve_amount |-> Nothing],
              [target_percentage |-> RInt(0), reserve_amount |-> Nothing] },
      Seguranca |-> { [target_percentage |-> RInt(0), reserve_amount |-> Nothing],
                      [target_percentage |-> RInt(0), reserve_amount |-> Some(RInt(10000))],
                      [target_percentage |-> RInt(20), reserve_amount |-> Some(RInt(10000))],
                      [target_percentage |-> RInt(20), reserve_amount |-> Nothing] } ]
DashboardTables ==
    UNION { { tbl \in [D -> UNION { DashboardRows[l] : l \in D }] :
                \A l \in D : tbl[l] \in DashboardRows[l] } : D \in SUBSET {"A", SEGURANCA} }

\* What the user types into the investment input in place of its default.
TypedInvestments == { RInt(0), RInt(1000) }

\* render_dashboard hands over the positions of the labels with a target
\* above 0 and those of the labels with a reserve.
InitDashboard ==
    /\ targets \in DashboardTables
    /\ \E all_positions \in DashboardPositionLists :
          /\ positions = WithLabelIn(all_positions, TargetLabels(targets))
          /\ reserve_positions = WithLabelIn(all_positions, ReserveLabel(targets))
    /\ use_custom_labels = TRUE
    /\ current_allocation = EmptyMap
    /\ target_allocations = EmptyMap
    /\ additional_investment = RZero
    /\ old_allocation = EmptyMap
    /\ new_allocation = EmptyMap
    /\ NoResults

\* _render_rebalancing, from the check of the targets to the plan.  Without
\* targets it returns at once.  The investment input returns its default or
\* what the user typed.
RenderRebalancing ==
    /\ call = "none"
    /\ DOMAIN targets # {}
    /\ LET reserve_allocation == calculate_current_allocation(reserve_positions, TRUE)
       IN  seguranca_info' = SegurancaInfo(get_target(targets, SEGURANCA), reserve_allocation)
    /\ default_investment' = DefaultInvestment(seguranca_info')
    /\ session_state' = [x \in {"seguranca_excess"} |-> default_investment']
    /\ current_allocation' = calculate_current_allocation(positions, TRUE)
    /\ target_allocations' = DashboardTargets(targets)
    /\ additional_investment' \in { session_state'["seguranca_excess"] } \cup TypedInvestments
    /\ \E order \in IterationOrders(AllLabels(current_allocation', target_allocations')) :
          /\ plan' = create_rebalancing_plan(current_allocation', target_allocations',
                                             additional_investment', order)
          /\ analyses_before' = PlanAnalyses(current_allocation', target_allocations',
                                              additional_investment', order)
          /\ pass_trace' = GreedySteps(analyses_before', additional_investment')
    /\ call' = "_render_rebalancing"
    /\ UNCHANGED << positions, use_custom_labels, old_allocation, new_allocation,
                    allocation, percentages, analyses, growth_data, plan_again,
                    Interleaved, targets, reserve_positions, Database, Pgbl >>

NextDashboard == RenderRebalancing

SpecDashboard == InitDashboard /\ [][NextDashboard]_vars

----------------------------------------------------------------------------
(* The target form of the classification page: one number input per label
   of the asset mappings (the reserve category left out), saved into the
   targets table when the percentages entered sum to 100 within 0.1.       *)

\* The labels of the asset mappings, the reserve category left out.
FormLabels == {"A", "B", "C"}

\* What the user enters for a label.
FormPercentages == { RInt(0), RInt(30), Rat(999, 20), RInt(50), RInt(70), RInt(100) }

\* abs(total_percentage - 100.0) > 0.1 is refused.
Accepted(targets_input) ==
    RLe(RAbs(RSub(RSumMap(targets_input), RInt(100))), Rat(1, 10))

\* The rows _initialize_default_labels inserts into a new database.
DefaultTargets ==
    [l \in {"Previdencia", SEGURANCA} |->
        [target_percentage |-> RZero, reserve_amount |-> Nothing]]

\* add_or_update_target(label, target_pct, None) for each label with
\* target_pct > 0; the labels entered as 0 are passed over.
SavedTargets(tbl, targets_input) ==
    LET saved == { l \in DOMAIN targets_input : RLt(RZero, targets_input[l]) }
    IN  [l \in DOMAIN tbl \cup saved |->
            IF l \in saved
            THEN [target_percentage |-> targets_input[l], reserve_amount |-> Nothing]
            ELSE tbl[l]]

InitTargets ==
    /\ targets = DefaultTargets
    /\ reserve_positions = << >>
    /\ positions = << >>
    /\ use_custom_labels = TRUE
    /\ current_allocation = EmptyMap
    /\ target_allocations = EmptyMap
    /\ additional_investment = RZero
    /\ old_allocation = EmptyMap
    /\ new_allocation = EmptyMap
    /\ NoResults

\* A submission of the form that is accepted; a refused one shows an error
\* and stores nothing.
SaveTargets ==
    /\ \E targets_input \in [FormLabels -> FormPercentages] :
          /\ Accepted(targets_input)
          /\ targets' = SavedTargets(targets, targets_input)
    /\ call' = "save_targets"
    /\ UNCHANGED << Inputs, allocation, percentages, analyses, plan, growth_data,
                    pass_trace, Again, Interleaved, reserve_positions, seguranca_info,
                    default_investment, session_state, Database, Pgbl >>

NextTargets == SaveTargets

SpecTargets == InitTargets /\ [][NextTargets]_vars

\* The arguments of the engine and the tables of the dashboard, for the calls
\* that go through neither.
NoEngine ==
    /\ positions = << >>
    /\ use_custom_labels = TRUE
    /\ current_allocation = EmptyMap
    /\ target_allocations = EmptyMap
    /\ additional_investment = RZero
    /\ old_allocation = EmptyMap
    /\ new_allocation = EmptyMap
    /\ reserve_positions = << >>
    /\ targets = DefaultTargets

----------------------------------------------------------------------------
(* The positions and asset_mappings tables of the database.  A position is
   carried with its name and custom_label; its other columns are stored as
   given and no operation here reads them.                                 *)

MaxStored == 3

AssetNames == {"x", "y"}
MappingLabels == {"A", "B"}

\* The positions an import hands to add_position.
ImportedPositions == [ name : AssetNames, custom_label : {None} \cup MappingLabels ]

\* Variant: the UPDATE reaches the first row with that name only.
Relabel_FirstRow(ps, name, label) ==
    LET named == { i \in 1..Len(ps) : ps[i].name = name }
    IN  [i \in 1..Len(ps) |->
            IF i \in named /\ \A j \in named : i <= j
            THEN [ps[i] EXCEPT !.custom_label = label]
            ELSE ps[i]]

\* UPDATE positions SET custom_label = ? WHERE name = ?
Relabel(ps, name, label) ==
    [i \in 1..Len(ps) |->
        IF ps[i].name = name THEN [ps[i] EXCEPT !.custom_label = label] ELSE ps[i]]

\* get_asset_mapping(name)
get_asset_mapping(name) ==
    IF name \in DOMAIN asset_mappings THEN Some(asset_mappings[name]) ELSE Nothing

InitMappings == NoEngine /\ NoResults

\* The position is stored with the label of the mapping of its name, if
\* there is one, and with its own custom_label otherwise.
add_position ==
    /\ Len(stored_positions) < MaxStored
    /\ \E position \in ImportedPositions :
          LET mapping == get_asset_mapping(position.name)
              stored == IF mapping # Nothing
                        THEN [position EXCEPT !.custom_label = mapping[1]]
                        ELSE position
          IN  /\ stored_positions' = Append(stored_positions, stored)
              /\ asset_name' = position.name
    /\ call' = "add_position"
    /\ UNCHANGED << Inputs, allocation, percentages, analyses, plan, growth_data,
                    pass_trace, Again, Interleaved, Dashboard, Pgbl, asset_mappings >>

\* The upsert of the mapping, then the update of the positions of that name.
add_or_update_mapping ==
    /\ \E name \in AssetNames, custom_label \in MappingLabels :
          /\ asset_mappings' =
                 [a \in DOMAIN asset_mappings \cup {name} |->
                     IF a = name THEN custom_label ELSE asset_mappings[a]]
          /\ stored_positions' = Relabel(stored_positions, name, custom_label)
          /\ asset_name' = name
    /\ call' = "add_or_update_mapping"
    /\ UNCHANGED << Inputs, allocation, percentages, analyses, plan, growth_data,
                    pass_trace, Again, Interleaved, Dashboard, Pgbl >>

\* The delete of the mapping, if any, then custom_label = NULL for the
\* positions of that name.
delete_mapping ==
    /\ \E name \in AssetNames :
          /\ asset_mappings' = [a \in DOMAIN asset_mappings \ {name} |-> asset_mappings[a]]
          /\ stored_positions' = Relabel(stored_positions, name, None)
          /\ asset_name' = name
    /\ call' = "delete_mapping"
    /\ UNCHANGED << Inputs, allocation, percentages, analyses, plan, growth_data,
                    pass_trace, Again, Interleaved, Dashboard, Pgbl >>

NextMappings == add_position \/ add_or_update_mapping \/ delete_mapping

SpecMappings == InitMappings /\ [][NextMappings]_vars

----------------------------------------------------------------------------
(* The PGBL tax calculator.  An income entry is carried with its entry_type
   and amount; the emoji of a status is written by its name.               *)

MaxEntries == 2

\* The keys of INCOME_TYPES, the default "" of the dataclass, and a code in
\* another case.
EntryTypes ==
    { "salary", "vacation", "vacation_bonus", "pension", "rental",
      "thirteenth", "plr", "other", "", "PLR" }

EntryAmounts == { RInt(1000), Rat(5001, 2) }

IncomeEntries == [ entry_type : EntryTypes, amount : EntryAmounts ]

EntryLists ==
    UNION { [1..n -> IncomeEntries] : n \in 0..MaxEntries }

CompletionPercentages ==
    { RInt(-10), RZero, RInt(50), Rat(899, 10), RInt(90), RInt(95),
      Rat(999, 10), RInt(100), RInt(150) }

NON_TAXABLE_TYPES == { "thirteenth", "plr" }

\* Variant: only the 13th salary is left out.
is_taxable_ThirteenthOnly(entry) == entry.entry_type \notin { "thirteenth" }

\* AnnualIncomeEntry.is_taxable
is_taxable(entry) == entry.entry_type \notin { "thirteenth", "plr" }

is_taxable_income_type(entry_type) == entry_type \notin NON_TAXABLE_TYPES

\* The loop over the entries, from taxable_total = 0.0.
RECURSIVE TaxableTotal(_, _)
TaxableTotal(taxable_total, es) ==
    IF es = << >> THEN taxable_total
    ELSE TaxableTotal(IF is_taxable(es[1])
                      THEN RAdd(taxable_total, es[1].amount)
                      ELSE taxable_total,
                      Tail(es))

calculate_taxable_income(es) == TaxableTotal(RZero, es)

get_status_info(pct) ==
    IF RLe(RInt(100), pct) THEN << "optimized", "white_check_mark", "green" >>
    ELSE IF RLe(RInt(90), pct) THEN << "almost_complete", "warning", "orange" >>
    ELSE << "room_to_invest", "bar_chart", "blue" >>

InitPgbl ==
    /\ NoEngine
    /\ NoCalls
    /\ NoStore
    /\ NoPgblResults
    /\ entries \in EntryLists
    /\ completion_pct \in CompletionPercentages

CalculateTaxableIncome ==
    /\ taxable_income' = calculate_taxable_income(entries)
    /\ call' = "calculate_taxable_income"
    /\ UNCHANGED << Inputs, allocation, percentages, analyses, plan, growth_data,
                    pass_trace, Again, Interleaved, Dashboard, Database,
                    entries, completion_pct, status_info >>

GetStatusInfo ==
    /\ status_info' = get_status_info(completion_pct)
    /\ call' = "get_status_info"
    /\ UNCHANGED << Inputs, allocation, percentages, analyses, plan, growth_data,
                    pass_trace, Again, Interleaved, Dashboard, Database,
                    entries, completion_pct, taxable_income >>

NextPgbl == CalculateTaxableIncome \/ GetStatusInfo

SpecPgbl == InitPgbl /\ [][NextPgbl]_vars

PlanAgainDone == call = "create_rebalancing_plan_again"

\* C15: two calls of create_rebalancing_plan with the same inputs return
\* the same plan, the order of the analyses and of the suggestions included,
\* whatever order the set of labels is iterated in.
C15_SameResult == PlanAgainDone => plan_again = plan

Alone(c) ==
    IF frame[c].op = "calculate_current_allocation"
    THEN [ allocation |-> calculate_current_allocation(positions, use_custom_labels) ]
    ELSE [ plan |-> create_rebalancing_plan(current_allocation, target_allocations,
                                            additional_investment, frame[c].order) ]

Got(c) ==
    IF frame[c].op = "calculate_current_allocation"
    THEN [ allocation |-> result[c].allocation ]
    ELSE [ plan |-> result[c].plan ]

\* C19: the position list, current_allocation and target_allocations (and
\* the other arguments) are, during and after every call, what the call was
\* given; and a call that has returned, however its steps interleaved with
\* those of another caller and whatever calls came before it, has returned
\* what it returns when it runs alone.
C19_Isolated ==
    \A c \in Callers :
        /\ frame[c].pc # "idle" => Arguments = frame[c].args
        /\ frame[c].pc = "done" => Got(c) = Alone(c)

\* Both callers have returned, one an allocation of two labels and one a
\* plan with suggestions, each after steps taken while the other was inside
\* its call.
C19_Witness ==
    /\ frame[1].pc = "done" /\ frame[1].interleaved
    /\ frame[2].pc = "done" /\ frame[2].interleaved
    /\ frame[1].op = "calculate_current_allocation"
    /\ frame[2].op = "create_rebalancing_plan"
    /\ Cardinality(DOMAIN result[1].allocation) = 2
    /\ Len(result[2].plan.analyses) >= 2
    /\ result[2].plan.suggestions # << >>

RenderDone == call = "_render_rebalancing"

\* A reserve is configured: the table has a row of the reserve category
\* with a reserve amount.
ReserveConfigured ==
    /\ SEGURANCA \in DOMAIN targets
    /\ targets[SEGURANCA].reserve_amount # Nothing

\* current value of the reserve category - reserve_amount
ReserveExcess ==
    RSub(Get(calculate_current_allocation(reserve_positions, TRUE), SEGURANCA),
         targets[SEGURANCA].reserve_amount[1])

\* C20: with a reserve configured and excess = current value of the
\* reserve category - reserve_amount, an excess above 0 is flagged 'excess'
\* and is the default investment; an excess below 0 is flagged 'below' and
\* an excess of 0 'exact', both with a default of 0; without a reserve
\* nothing is flagged and the default is 0.  The default is never negative,
\* and it is what the page keeps in its session state.
C20_ReserveDefault ==
    RenderDone =>
        /\ ReserveConfigured /\ RPositive(ReserveExcess) =>
               /\ seguranca_info # Nothing
               /\ seguranca_info[1].type = "excess"
               /\ seguranca_info[1].excess = ReserveExcess
               /\ default_investment = ReserveExcess
        /\ ReserveConfigured /\ RNegative(ReserveExcess) =>
               /\ seguranca_info # Nothing
               /\ seguranca_info[1].type = "below"
               /\ default_investment = RZero
        /\ ReserveConfigured /\ ReserveExcess = RZero =>
               /\ seguranca_info # Nothing
               /\ seguranca_info[1].type = "exact"
               /\ default_investment = RZero
        /\ ~ReserveConfigured =>
               /\ seguranca_info = Nothing
               /\ default_investment = RZero
        /\ ~RNegative(default_investment)
        /\ session_state["seguranca_excess"] = default_investment

\* Two reserve positions of 10000 and 5000 against a reserve of 10000: an
\* excess of 5000, kept as the investment of the plan.
C20_Witness ==
    /\ RenderDone
    /\ ReserveConfigured
    /\ Len(reserve_positions) = 2
    /\ seguranca_info # Nothing
    /\ seguranca_info[1].type = "excess"
    /\ default_investment = RInt(5000)
    /\ additional_investment = default_investment
    /\ plan.total_portfolio_value = RAdd(RSumMap(current_allocation), RInt(5000))

\* C21: when the reserve category has a reserve amount configured, its
\* label is not among the analyses of the plan the dashboard builds,
\* whatever the stored targets (a target percentage above 0 for the reserve
\* category included) and the stored positions.
C21_ReserveNotAnalysed ==
    RenderDone /\ SEGURANCA \in DOMAIN targets /\ HasReserve(targets[SEGURANCA]) =>
        \A i \in 1..Len(plan.analyses) : plan.analyses[i].label # SEGURANCA

\* The same for the rows the two forms of the page write: the reserve
\* category with a target percentage of 0.
C21_ReserveNotAnalysedZeroTarget ==
    /\ RenderDone
    /\ SEGURANCA \in DOMAIN targets
    /\ HasReserve(targets[SEGURANCA])
    /\ targets[SEGURANCA].target_percentage = RZero
    => \A i \in 1..Len(plan.analyses) : plan.analyses[i].label # SEGURANCA

ExampleInput ==
    /\ current_allocation = ExampleAllocation
    /\ target_allocations = ExampleTargets
    /\ additional_investment = RInt(2000)

\* C22: for {Fixed Income: 8000, Equities: 2000} against {Fixed Income: 70,
\* Equities: 30} with 2000 of new money the plan has a total of 12000, a
\* rebalance_amount of +400 for Fixed Income and of +1600 for Equities, and
\* its suggestions invest 1600 in Equities first and then the remaining 400
\* in Fixed Income, with no leftover note.
C22_Example ==
    PlanDone /\ ExampleInput =>
        /\ plan.total_portfolio_value = RInt(12000)
        /\ Len(plan.analyses) = 2
        /\ \A i \in 1..Len(plan.analyses) :
               plan.analyses[i].rebalance_amount =
                   IF plan.analyses[i].label = "Fixed Income" THEN RInt(400) ELSE RInt(1600)
        /\ SelectSeq(plan.suggestions, IsInvestLine) =
               << Line("invest", "Equities", Fmt2(RInt(1600)), Fmt1(Rat(50, 3)), Fmt1(RInt(30))),
                  Line("invest", "Fixed Income", Fmt2(RInt(400)), Fmt1(Rat(200, 3)), Fmt1(RInt(70))) >>
        /\ \A i \in 1..Len(plan.suggestions) : plan.suggestions[i].kind # "leftover"
        /\ Unassigned = RZero

\* The plan of the example, after two steps of the greedy pass.
C22_Witness ==
    /\ PlanDone
    /\ ExampleInput
    /\ Len(pass_trace) = 2
    /\ pass_trace[1].analysis.label = "Equities"
    /\ pass_trace[2].remaining = RZero

\* The plan was built without new money.
NoNewMoney == PlanDone /\ additional_investment = RZero

CurrentTotal == RSumMap(current_allocation)

\* The value of the label of analysis a after its rebalance_amount is added.
ValueAfter(a) == RAdd(a.current_value, a.rebalance_amount)

\* v is exactly pct percent of total.
IsPercentOf(v, pct, total) == RMul(v, RInt(100)) = RMul(pct, total)

\* C23 (as stated): for a plan built with additional_investment = 0 and N =
\* additional_investment_needed, adding its rebalance_amount to each label
\* with a positive one leaves that label at exactly its target percentage
\* of the resulting total current_total + N.
C23_AtTargetOfResultingTotal ==
    NoNewMoney =>
        \A i \in 1..Len(plan.analyses) :
            RPositive(plan.analyses[i].rebalance_amount) =>
                IsPercentOf(ValueAfter(plan.analyses[i]),
                            plan.analyses[i].target_percentage,
                            RAdd(CurrentTotal, plan.additional_investment_needed))

\* C23 (amended): for such a plan N is the sum of the positive
\* rebalance_amounts, and adding its rebalance_amount to each label with a
\* positive one leaves that label at exactly its target percentage of
\* current_total; it is at its target percentage of the resulting total
\* current_total + N only when that target percentage is 0.
C23_AtTargetOfCurrentTotal ==
    NoNewMoney =>
        /\ plan.additional_investment_needed = PositiveRebalanceSum(plan.analyses)
        /\ \A i \in 1..Len(plan.analyses) :
               RPositive(plan.analyses[i].rebalance_amount) =>
                   /\ IsPercentOf(ValueAfter(plan.analyses[i]),
                                  plan.analyses[i].target_percentage, CurrentTotal)
                   /\ IsPercentOf(ValueAfter(plan.analyses[i]),
                                  plan.analyses[i].target_percentage,
                                  RAdd(CurrentTotal, plan.additional_investment_needed))
                        <=> plan.analyses[i].target_percentage = RZero

\* 8000 and 2000 held against 70 and 30: N is 1000, and the label it goes
\* to ends at 3000 of 11000.
C23_Witness ==
    /\ NoNewMoney
    /\ CurrentTotal = RInt(10000)
    /\ plan.additional_investment_needed = RInt(1000)
    /\ \E i \in 1..Len(plan.analyses) :
           /\ plan.analyses[i].rebalance_amount = RInt(1000)
           /\ plan.analyses[i].target_percentage = RInt(30)
           /\ ValueAfter(plan.analyses[i]) = RInt(3000)

\* The pool when the greedy pass ends.
PoolAtEnd ==
    IF pass_trace = << >> THEN additional_investment
    ELSE pass_trace[Len(pass_trace)].remaining

\* C24: in the new-money branch the pool is >= 0 before and after every
\* step of the greedy pass, every amount assigned is > 0, and when the pass
\* ends the amounts assigned plus the pool left add up to
\* additional_investment.
C24_PoolInvariant ==
    (PlanDone /\ RPositive(additional_investment)) =>
        /\ \A i \in 1..Len(pass_trace) :
               /\ ~RNegative(PoolBefore(i))
               /\ ~RNegative(pass_trace[i].remaining)
               /\ RPositive(pass_trace[i].amount)
        /\ RAdd(RSumSeq([i \in 1..Len(pass_trace) |-> pass_trace[i].amount]), PoolAtEnd)
               = additional_investment

\* The pass funded one label in full and ran dry on the second, with a
\* third fundable label left unvisited.
C24_Witness ==
    /\ PlanDone
    /\ RPositive(additional_investment)
    /\ Len(pass_trace) = 2
    /\ pass_trace[1].amount = pass_trace[1].analysis.rebalance_amount
    /\ RLt(pass_trace[2].amount, pass_trace[2].analysis.rebalance_amount)
    /\ PoolAtEnd = RZero
    /\ Len(SelectSeq(plan.analyses, Fundable)) >= 3

RebalanceSum(as) == RSumSeq([i \in 1..Len(as) |-> as[i].rebalance_amount])

\* The target percentages of the labels of the union sum to 100 (a label
\* without a target counts 0).
TargetsSumToHundred == RSumMap(target_allocations) = RInt(100)

\* C25: when the target percentages of the labels of the union sum to 100,
\* the rebalance_amounts of the analyses sum to additional_investment in
\* create_rebalancing_plan and to 0 in analyze_allocation.
C25_RebalanceSum ==
    /\ (PlanDone /\ TargetsSumToHundred) =>
           RebalanceSum(plan.analyses) = additional_investment
    /\ (AnalyzeDone /\ TargetsSumToHundred) =>
           RebalanceSum(analyses) = RZero

\* An analysis of 8000 and 2000 against 70 and 30: +1000 and -1000.
C25_Witness ==
    /\ AnalyzeDone
    /\ TargetsSumToHundred
    /\ Len(analyses) = 2
    /\ RPositive(analyses[1].rebalance_amount) \/ RPositive(analyses[2].rebalance_amount)
    /\ RNegative(analyses[1].rebalance_amount) \/ RNegative(analyses[2].rebalance_amount)
    /\ RebalanceSum(analyses) = RZero

Records(as) == { as[i] : i \in 1..Len(as) }

\* What analyze_allocation returns for the inputs of now, as a set: the
\* iteration order of the labels decides the order of the list only.
AnalysisRecords ==
    LET order == CHOOSE o \in IterationOrders(AllLabels(current_allocation,
                                                         target_allocations)) : TRUE
    IN  Records(analyze_allocation(current_allocation, target_allocations, order))

\* C26: create_rebalancing_plan with additional_investment = 0 returns the
\* same AllocationAnalysis records as analyze_allocation on the same
\* current allocation and targets (same fields for each label); only the
\* order of the list may differ.
C26_SameRecords == NoNewMoney => Records(plan.analyses) = AnalysisRecords

\* The same for a current allocation that does not sum to less than 0.
C26_SameRecordsNonNegativeTotal ==
    (NoNewMoney /\ ~RNegative(CurrentTotal)) => Records(plan.analyses) = AnalysisRecords

TargetsSaved == call = "save_targets"

\* The sum of the target percentages stored for the labels other than the
\* reserve category.
StoredTargetSum ==
    RSumMap([l \in DOMAIN targets \ {SEGURANCA} |-> targets[l].target_percentage])

\* C27: after any sequence of accepted submissions of the target form the
\* target percentages stored for the non-reserve labels sum to 100 within
\* 0.1; a label changed from a positive target to 0 in an accepted
\* submission no longer counts its old percentage.
C27_StoredTargetsSum ==
    TargetsSaved => RLe(RAbs(RSub(StoredTargetSum, RInt(100))), Rat(1, 10))

\* C28: after any sequence of add_position, add_or_update_mapping and
\* delete_mapping, every stored position whose name has an asset mapping
\* carries the custom_label of that mapping, and right after
\* delete_mapping(a) every stored position named a has custom_label NULL.
C28_LabelsFollowMappings ==
    /\ \A i \in 1..Len(stored_positions) :
           stored_positions[i].name \in DOMAIN asset_mappings =>
               stored_positions[i].custom_label = asset_mappings[stored_positions[i].name]
    /\ call = "delete_mapping" =>
           \A i \in 1..Len(stored_positions) :
               stored_positions[i].name = asset_name =>
                   stored_positions[i].custom_label = None

\* Right after a delete_mapping: two positions of the asset it was about,
\* and one position of an asset that is mapped.
C28_Witness ==
    /\ call = "delete_mapping"
    /\ Cardinality({ i \in 1..Len(stored_positions) :
                        /\ stored_positions[i].name = asset_name
                        /\ stored_positions[i].custom_label = None }) = 2
    /\ \E i \in 1..Len(stored_positions) :
           /\ stored_positions[i].name \in DOMAIN asset_mappings
           /\ stored_positions[i].custom_label = asset_mappings[stored_positions[i].name]

\* The amounts of the entries whose entry_type is neither 'thirteenth' nor
\* 'plr', in the order of the list.
AmountsOutsideThirteenthAndPlr ==
    LET kept == SelectSeq(entries,
                          LAMBDA e : e.entry_type # "thirteenth" /\ e.entry_type # "plr")
    IN  [i \in 1..Len(kept) |-> kept[i].amount]

\* C29: calculate_taxable_income returns the sum of amount over exactly the
\* entries whose entry_type is neither 'thirteenth' nor 'plr', and
\* AnnualIncomeEntry.is_taxable and is_taxable_income_type agree for every
\* entry type.
C29_TaxableIncome ==
    /\ call = "calculate_taxable_income" =>
           taxable_income = RSumSeq(AmountsOutsideThirteenthAndPlr)
    /\ \A e \in IncomeEntries : is_taxable(e) = is_taxable_income_type(e.entry_type)

\* A sum over a list with a taxable entry and a 'plr' entry.
C29_Witness ==
    /\ call = "calculate_taxable_income"
    /\ Len(entries) = 2
    /\ entries[1].entry_type = "plr"
    /\ entries[2].entry_type = "salary"
    /\ taxable_income = entries[2].amount

\* C30: for every completion percentage, the status returned by
\* get_status_info is one of "optimized", "room_to_invest" and "over_limit".
C30_DocumentedStatus ==
    call = "get_status_info" =>
        status_info[1] \in { "optimized", "room_to_invest", "over_limit" }

====
